---- MODULE Spec2Model ----
(***************************************************************************)
(* bevy_video_glitch: the plugin's graph registration, the one-time        *)
(* pipeline resource, and the per-view render node (src/src/lib.rs).       *)
(* A frame is: the application edits VideoGlitchSettings on camera         *)
(* entities, the render world is prepared (extraction, uniform upload,     *)
(* pipeline cache progress, globals), then the render graph of every view  *)
(* is executed in an order that respects the declared edges.               *)
(***************************************************************************)
EXTENDS Naturals, Integers, Sequences, FiniteSets, TLC

\* ------------------------------------------------------------------ bounds
NumViews == 2
NumSettingValues == 2

Views == 1..NumViews
\* Distinct (intensity, color_aberration) values a VideoGlitchSettings may hold.
SettingValues == 1..NumSettingValues
\* No VideoGlitchSettings component on the entity.
NoSettings == 0

\* ----------------------------------------------------------- graph labels
Core3d == "Core3d"
Core2d == "Core2d"
Graphs == {Core3d, Core2d}
VideoGlitchLabel == "VideoGlitchLabel"
Node3dTonemapping == "Node3d::Tonemapping"
Node3dEndMainPassPostProcessing == "Node3d::EndMainPassPostProcessing"
Node2dEndMainPass == "Node2d::EndMainPass"
Node2dTonemapping == "Node2d::Tonemapping"

\* add_render_graph_edges with a tuple (a, b, c) declares a -> b and b -> c.
EdgesOfTuple(t) == {<<t[i], t[i + 1]>> : i \in 1..(Len(t) - 1)}

\* Mutant: the edge from tone mapping to the effect is not declared.
Edges3dNoTonemappingEdge ==
    EdgesOfTuple(<<VideoGlitchLabel, Node3dEndMainPassPostProcessing>>)

Edges3d ==
    EdgesOfTuple(<<Node3dTonemapping, VideoGlitchLabel,
                   Node3dEndMainPassPostProcessing>>)

Edges2d ==
    EdgesOfTuple(<<Node2dEndMainPass, VideoGlitchLabel, Node2dTonemapping>>)

\* The stages of the host graphs the plugin names.
HostNodes(g) ==
    IF g = Core3d THEN {Node3dTonemapping, Node3dEndMainPassPostProcessing}
    ELSE {Node2dEndMainPass, Node2dTonemapping}

\* The stage whose output the effect samples, and the stage that consumes
\* the effect's output, in each graph.
Upstream(g) == IF g = Core3d THEN Node3dTonemapping ELSE Node2dEndMainPass
Downstream(g) ==
    IF g = Core3d THEN Node3dEndMainPassPostProcessing ELSE Node2dTonemapping

\* ------------------------------------------------------ pipeline resource
FRAGMENT == "FRAGMENT"

\* BindGroupLayoutEntries::sequential(ShaderStages::FRAGMENT, (...)):
\* binding i is the i-th element, every entry with the given visibility.
LayoutEntries ==
    << [binding |-> 0, visibility |-> {FRAGMENT}, ty |-> "texture_2d",
        detail |-> "Float{filterable:true}"],
       [binding |-> 1, visibility |-> {FRAGMENT}, ty |-> "sampler",
        detail |-> "Filtering"],
       [binding |-> 2, visibility |-> {FRAGMENT}, ty |-> "uniform_buffer",
        detail |-> "VideoGlitchSettings"],
       [binding |-> 3, visibility |-> {FRAGMENT}, ty |-> "uniform_buffer",
        detail |-> "GlobalsUniform"] >>

NoPipelineResource == [present |-> FALSE, layout |-> <<>>, sampler |-> 0,
                       pipeline_id |-> 0]

\* ----------------------------------------------------------------- state
VARIABLES
    phase,            \* "build", "finish", "update", "graph"
    hasRenderApp,     \* app.get_sub_app_mut(RenderApp) is Some
    renderGraph,      \* per graph: registered nodes and declared edges
    pipelineResource, \* the VideoGlitchPipeline resource
    pipelineCache,    \* PipelineCache: queued pipelines and their state
    device,           \* RenderDevice: objects created so far
    settings,         \* main world: VideoGlitchSettings per camera entity
    extracted,        \* render world: settings copy and uniform index
    uniforms,         \* ComponentUniforms<VideoGlitchSettings> buffer
    globalsBound,     \* GlobalsBuffer has a binding
    viewTarget,       \* per view: main texture and who wrote each texture
    order,            \* per view: nodes executed this frame, in order
    ops,              \* per view: what the effect node recorded this frame
    downstreamRead,   \* per view: writer of the texture the next stage read
    skippedBefore     \* per view: the effect skipped in an earlier frame

vars == <<phase, hasRenderApp, renderGraph, pipelineResource, pipelineCache,
          device, settings, extracted, uniforms, globalsBound, viewTarget,
          order, ops, downstreamRead, skippedBefore>>

\* The graph each camera renders with (a 3d or a 2d camera).
GraphOf(v) == IF v % 2 = 1 THEN Core3d ELSE Core2d

Textures == {"a", "b"}
Other(t) == IF t = "a" THEN "b" ELSE "a"

FreshViewTarget == [main |-> "a", writer |-> [t \in Textures |-> "stale"]]
NotExtracted == [settings |-> NoSettings, index |-> 0]

\* What a node invocation records through the render context.
NoOps == [post_process_writes |-> <<>>, bind_groups |-> <<>>,
          render_passes |-> <<>>, set_pipelines |-> <<>>,
          set_bind_groups |-> <<>>, draws |-> <<>>]

Init ==
    /\ phase = "build"
    /\ hasRenderApp \in BOOLEAN
    /\ renderGraph = [g \in Graphs |->
                        [nodes |-> HostNodes(g), edges |-> {}]]
    /\ pipelineResource = NoPipelineResource
    /\ pipelineCache = <<>>
    /\ device = [layouts |-> 0, samplers |-> 0]
    /\ settings \in [Views -> {NoSettings} \cup SettingValues]
    /\ extracted = [v \in Views |-> NotExtracted]
    /\ uniforms = <<>>
    /\ globalsBound = FALSE
    /\ viewTarget = [v \in Views |-> FreshViewTarget]
    /\ order = [v \in Views |-> <<>>]
    /\ ops = [v \in Views |-> NoOps]
    /\ downstreamRead = [v \in Views |-> "none"]
    /\ skippedBefore = [v \in Views |-> FALSE]

\* ------------------------------------------------------------ Plugin::build
Build ==
    /\ phase = "build"
    /\ phase' = "finish"
    /\ renderGraph' =
         IF hasRenderApp
         THEN [g \in Graphs |->
                 [nodes |-> renderGraph[g].nodes \cup {VideoGlitchLabel},
                  edges |-> renderGraph[g].edges \cup
                              (IF g = Core3d THEN Edges3d ELSE Edges2d)]]
         ELSE renderGraph
    /\ UNCHANGED <<hasRenderApp, pipelineResource, pipelineCache, device,
                   settings, extracted, uniforms, globalsBound, viewTarget,
                   order, ops, downstreamRead, skippedBefore>>

\* ------------------------------------------- VideoGlitchPipeline::from_world
\* Creates the layout and the sampler on the device and queues the render
\* pipeline; the id is the position of the queued entry in the cache.
FromWorld(dev, cache) ==
    [resource |-> [present |-> TRUE, layout |-> LayoutEntries,
                   sampler |-> dev.samplers + 1,
                   pipeline_id |-> Len(cache) + 1],
     device |-> [layouts |-> dev.layouts + 1, samplers |-> dev.samplers + 1],
     cache |-> Append(cache, [label |-> "video_glitch_pipeline",
                              layout |-> LayoutEntries,
                              entry_point |-> "fragment",
                              state |-> "Queued"])]

\* init_resource builds the resource from the world only when it is absent.
InitResource(res, dev, cache) ==
    IF res.present
    THEN [resource |-> res, device |-> dev, cache |-> cache]
    ELSE FromWorld(dev, cache)

\* ----------------------------------------------------------- Plugin::finish
Finish ==
    /\ phase = "finish"
    /\ phase' = "update"
    /\ LET r == InitResource(pipelineResource, device, pipelineCache)
       IN IF hasRenderApp
          THEN /\ pipelineResource' = r.resource
               /\ device' = r.device
               /\ pipelineCache' = r.cache
          ELSE UNCHANGED <<pipelineResource, device, pipelineCache>>
    /\ UNCHANGED <<hasRenderApp, renderGraph, settings, extracted, uniforms,
                   globalsBound, viewTarget, order, ops, downstreamRead,
                   skippedBefore>>

\* ------------------------------------------------ the application's updates
\* VideoGlitchSettings is a plain component: the application inserts, edits
\* or removes it on a camera entity between frames.
SetSettings(v, s) ==
    /\ phase = "update"
    /\ settings[v] # s
    /\ settings' = [settings EXCEPT ![v] = s]
    /\ UNCHANGED <<phase, hasRenderApp, renderGraph, pipelineResource,
                   pipelineCache, device, extracted, uniforms, globalsBound,
                   viewTarget, order, ops, downstreamRead, skippedBefore>>

\* ------------------------------------------------- extraction and preparing
\* The orders in which the uniform plugin may iterate the entities that carry
\* the component.
Orderings(S) ==
    {f \in [1..Cardinality(S) -> S] :
        \A i, j \in 1..Cardinality(S) : f[i] = f[j] => i = j}

IndexIn(perm, v) == CHOOSE i \in DOMAIN perm : perm[i] = v

\* ExtractComponentPlugin copies each entity's settings to the render world;
\* UniformComponentPlugin writes them one after the other into one uniform
\* buffer and gives each entity its index.  A frame without any component
\* leaves the buffer as it was.
Extracted(perm) ==
    [v \in Views |->
        IF settings[v] = NoSettings THEN NotExtracted
        ELSE [settings |-> settings[v], index |-> IndexIn(perm, v) - 1]]

Uploaded(perm, old) ==
    IF perm = <<>> THEN old ELSE [i \in DOMAIN perm |-> settings[perm[i]]]

\* The pipeline cache processes its queue: a queued pipeline may finish
\* compiling, may fail, or may still be pending.
CacheProgress(cache) ==
    {c \in [DOMAIN cache -> {cache[i] : i \in DOMAIN cache} \cup
                {[cache[i] EXCEPT !.state = st] :
                    i \in DOMAIN cache, st \in {"Ok", "Err"}}] :
        \A i \in DOMAIN cache :
            /\ [c[i] EXCEPT !.state = cache[i].state] = cache[i]
            /\ cache[i].state # "Queued" => c[i] = cache[i]}

BeginRender ==
    /\ phase = "update"
    /\ hasRenderApp
    /\ phase' = "graph"
    /\ \E perm \in Orderings({v \in Views : settings[v] # NoSettings}) :
         /\ extracted' = Extracted(perm)
         /\ uniforms' = Uploaded(perm, uniforms)
    /\ pipelineCache' \in CacheProgress(pipelineCache)
    /\ globalsBound' \in {globalsBound, TRUE}
    /\ UNCHANGED <<hasRenderApp, renderGraph, pipelineResource, device,
                   settings, viewTarget, order, ops, downstreamRead,
                   skippedBefore>>

\* ------------------------------------------------------ VideoGlitchNode::run
NoPipeline == [some |-> FALSE, id |-> 0]
NoBinding == [some |-> FALSE, buffer |-> "none", offset |-> 0,
              size |-> "none"]

\* PipelineCache::get_render_pipeline: the pipeline once it is compiled.
GetRenderPipeline(cache, id) ==
    IF id \in DOMAIN cache /\ cache[id].state = "Ok"
    THEN [some |-> TRUE, id |-> id]
    ELSE NoPipeline

\* settings_uniforms.uniforms().binding(): the whole buffer from its start,
\* one element long; absent until the buffer has been written.
SettingsBinding(unif) ==
    IF unif = <<>> THEN NoBinding
    ELSE [some |-> TRUE, buffer |-> "ComponentUniforms<VideoGlitchSettings>",
          offset |-> 0, size |-> "VideoGlitchSettings"]

\* globals_buffer.buffer.binding()
GlobalsBinding(bound) ==
    IF bound
    THEN [some |-> TRUE, buffer |-> "GlobalsBuffer", offset |-> 0,
          size |-> "GlobalsUniform"]
    ELSE NoBinding

\* ViewTarget::post_process_write: source is the current main texture,
\* destination the other one, and the main texture flips to destination.
PostProcessWrite(vt) ==
    [source |-> vt.main, destination |-> Other(vt.main),
     target |-> [vt EXCEPT !.main = Other(vt.main)]]

\* Mutant: the destination view is bound for sampling.
BindGroupEntriesOfDestination(pp, sampler, settings_binding, global_uniforms) ==
    << [binding |-> 0, kind |-> "texture_view", resource |-> pp.destination],
       [binding |-> 1, kind |-> "sampler", resource |-> sampler],
       [binding |-> 2, kind |-> "buffer", resource |-> settings_binding],
       [binding |-> 3, kind |-> "buffer", resource |-> global_uniforms] >>

\* Mutant: the two uniform bindings are passed in the other order.
BindGroupEntriesSwapped(pp, sampler, settings_binding, global_uniforms) ==
    << [binding |-> 0, kind |-> "texture_view", resource |-> pp.source],
       [binding |-> 1, kind |-> "sampler", resource |-> sampler],
       [binding |-> 2, kind |-> "buffer", resource |-> global_uniforms],
       [binding |-> 3, kind |-> "buffer", resource |-> settings_binding] >>

\* BindGroupEntries::sequential: entry i is the i-th element.
BindGroupEntries(pp, sampler, settings_binding, global_uniforms) ==
    << [binding |-> 0, kind |-> "texture_view", resource |-> pp.source],
       [binding |-> 1, kind |-> "sampler", resource |-> sampler],
       [binding |-> 2, kind |-> "buffer", resource |-> settings_binding],
       [binding |-> 3, kind |-> "buffer", resource |-> global_uniforms] >>

\* Mutant: the pass writes into the source view.
ColorAttachmentsSource(pp) == <<pp.source>>

\* The color attachments of the render pass.
ColorAttachments(pp) == <<pp.destination>>

\* render_pass.draw(0..3, 0..1)
RangeLen(lo, hi) == hi - lo
\* Mutant: a quad of two triangles instead of the fullscreen triangle.
DrawCallQuad == [vertices |-> RangeLen(0, 6), instances |-> RangeLen(0, 1)]

DrawCall == [vertices |-> RangeLen(0, 3), instances |-> RangeLen(0, 1)]

\* Mutant: the write is started before the resources are checked.
SkipAfterWrite(vt) ==
    [ops |-> [NoOps EXCEPT !.post_process_writes =
                 <<[source |-> PostProcessWrite(vt).source,
                    destination |-> PostProcessWrite(vt).destination]>>],
     target |-> PostProcessWrite(vt).target]

\* An early return: nothing is recorded and the view target is untouched.
Skip(vt) == [ops |-> NoOps, target |-> vt]

\* The drawing path, from post_process_write to draw.
Draw(vt, res, pipeline, settings_binding, global_uniforms) ==
    LET pp == PostProcessWrite(vt)
        bind_group ==
            [layout |-> res.layout,
             entries |-> BindGroupEntries(pp, res.sampler, settings_binding,
                                          global_uniforms)]
        attachments == ColorAttachments(pp)
    IN [ops |->
          [post_process_writes |->
               <<[source |-> pp.source, destination |-> pp.destination]>>,
           bind_groups |-> <<bind_group>>,
           render_passes |-> <<[color_attachments |-> attachments]>>,
           set_pipelines |-> <<pipeline.id>>,
           set_bind_groups |->
               <<[index |-> 0, bind_group |-> bind_group, offsets |-> <<>>]>>,
           draws |-> <<DrawCall>>],
        target |->
          [pp.target EXCEPT !.writer =
              [t \in Textures |->
                  IF \E i \in DOMAIN attachments : attachments[i] = t
                  THEN "effect" ELSE vt.writer[t]]]]

\* Mutant: the globals binding is not checked before drawing.
RunWithoutGlobalsGuard(vt, res, cache, unif, glob) ==
    LET pipeline == GetRenderPipeline(cache, res.pipeline_id)
        settings_binding == SettingsBinding(unif)
        global_uniforms == GlobalsBinding(glob)
    IN IF ~pipeline.some THEN Skip(vt)
       ELSE IF ~settings_binding.some THEN Skip(vt)
       ELSE Draw(vt, res, pipeline, settings_binding, global_uniforms)

Run(vt, res, cache, unif, glob) ==
    LET pipeline == GetRenderPipeline(cache, res.pipeline_id)
        settings_binding == SettingsBinding(unif)
        global_uniforms == GlobalsBinding(glob)
    IN IF ~pipeline.some THEN Skip(vt)
       ELSE IF ~settings_binding.some THEN Skip(vt)
       ELSE IF ~global_uniforms.some THEN Skip(vt)
       ELSE Draw(vt, res, pipeline, settings_binding, global_uniforms)

\* ------------------------------------------------------- graph execution
\* The components a view entity carries in the render world.
Components(v) ==
    {"ViewTarget"} \cup
    (IF extracted[v].settings # NoSettings THEN {"VideoGlitchSettings"}
     ELSE {})

\* Mutant: the query also asks for the settings component.
ViewQueryWithSettings == {"ViewTarget", "VideoGlitchSettings"}

\* type ViewQuery = &'static ViewTarget
ViewQuery == {"ViewTarget"}

\* A node may run once every node with a declared edge into it has run.
Runnable(v, n) ==
    /\ phase = "graph"
    /\ n \in renderGraph[GraphOf(v)].nodes
    /\ \A i \in DOMAIN order[v] : order[v][i] # n
    /\ \A e \in renderGraph[GraphOf(v)].edges :
         e[2] = n => \E i \in DOMAIN order[v] : order[v][i] = e[1]

\* Mutant: the node queues the render pipeline again on every run.
NodeRunQueueing(v) ==
    /\ Runnable(v, VideoGlitchLabel)
    /\ order' = [order EXCEPT ![v] = Append(@, VideoGlitchLabel)]
    /\ pipelineCache' = Append(pipelineCache,
                               [label |-> "video_glitch_pipeline",
                                layout |-> LayoutEntries,
                                entry_point |-> "fragment",
                                state |-> "Queued"])
    /\ LET r == IF ViewQuery \subseteq Components(v)
                THEN Run(viewTarget[v], pipelineResource, pipelineCache,
                         uniforms, globalsBound)
                ELSE Skip(viewTarget[v])
       IN /\ ops' = [ops EXCEPT ![v] = r.ops]
          /\ viewTarget' = [viewTarget EXCEPT ![v] = r.target]
    /\ UNCHANGED <<phase, hasRenderApp, renderGraph, pipelineResource,
                   device, settings, extracted, uniforms, globalsBound,
                   downstreamRead, skippedBefore>>

\* ViewNodeRunner<VideoGlitchNode>: runs the node on a view matching the query.
NodeRun(v) ==
    /\ Runnable(v, VideoGlitchLabel)
    /\ order' = [order EXCEPT ![v] = Append(@, VideoGlitchLabel)]
    /\ LET r == IF ViewQuery \subseteq Components(v)
                THEN Run(viewTarget[v], pipelineResource, pipelineCache,
                         uniforms, globalsBound)
                ELSE Skip(viewTarget[v])
       IN /\ ops' = [ops EXCEPT ![v] = r.ops]
          /\ viewTarget' = [viewTarget EXCEPT ![v] = r.target]
    /\ UNCHANGED <<phase, hasRenderApp, renderGraph, pipelineResource,
                   pipelineCache, device, settings, extracted, uniforms,
                   globalsBound, downstreamRead, skippedBefore>>

\* The stage before the effect leaves its output as the view's main texture:
\* tone mapping (3d) is itself a post-process write, which flips the main
\* texture; the main pass (2d) writes the main texture in place.
RunUpstream(v) ==
    /\ Runnable(v, Upstream(GraphOf(v)))
    /\ order' = [order EXCEPT ![v] = Append(@, Upstream(GraphOf(v)))]
    /\ LET m == IF GraphOf(v) = Core3d THEN Other(viewTarget[v].main)
                ELSE viewTarget[v].main
       IN viewTarget' = [viewTarget EXCEPT ![v] =
              [main |-> m, writer |-> [@.writer EXCEPT ![m] = "upstream"]]]
    /\ UNCHANGED <<phase, hasRenderApp, renderGraph, pipelineResource,
                   pipelineCache, device, settings, extracted, uniforms,
                   globalsBound, ops, downstreamRead, skippedBefore>>

\* The stage after the effect reads the view's main texture.
RunDownstream(v) ==
    /\ Runnable(v, Downstream(GraphOf(v)))
    /\ order' = [order EXCEPT ![v] = Append(@, Downstream(GraphOf(v)))]
    /\ downstreamRead' =
         [downstreamRead EXCEPT ![v] = viewTarget[v].writer[viewTarget[v].main]]
    /\ UNCHANGED <<phase, hasRenderApp, renderGraph, pipelineResource,
                   pipelineCache, device, settings, extracted, uniforms,
                   globalsBound, viewTarget, ops, skippedBefore>>

FrameDone ==
    /\ phase = "graph"
    /\ \A v \in Views :
         Len(order[v]) = Cardinality(renderGraph[GraphOf(v)].nodes)

Drew(v) == ops[v].draws # <<>>
EffectRan(v) == \E i \in DOMAIN order[v] : order[v][i] = VideoGlitchLabel

\* The frame ends: the view targets and the recorded commands are per frame.
EndFrame ==
    /\ FrameDone
    /\ phase' = "update"
    /\ skippedBefore' = [v \in Views |-> skippedBefore[v] \/ ~Drew(v)]
    /\ viewTarget' = [v \in Views |-> FreshViewTarget]
    /\ order' = [v \in Views |-> <<>>]
    /\ ops' = [v \in Views |-> NoOps]
    /\ downstreamRead' = [v \in Views |-> "none"]
    /\ UNCHANGED <<hasRenderApp, renderGraph, pipelineResource, pipelineCache,
                   device, settings, extracted, uniforms, globalsBound>>

\* ================================================================ claims
\* The three resources the node checks, as the current frame holds them.
PipelineReady ==
    GetRenderPipeline(pipelineCache, pipelineResource.pipeline_id).some
ResourcesReady ==
    /\ PipelineReady
    /\ SettingsBinding(uniforms).some
    /\ GlobalsBinding(globalsBound).some

HasSettings(v) == extracted[v].settings # NoSettings

\* The element of the settings buffer the draw of view v reads: the binding's
\* offset plus the dynamic offset given to set_bind_group, if any.
SettingsElementOf(v) ==
    LET sb == ops[v].set_bind_groups[1]
        binding == sb.bind_group.entries[3].resource
    IN binding.offset + (IF sb.offsets = <<>> THEN 0 ELSE sb.offsets[1])

SettingsSeenBy(v) == uniforms[SettingsElementOf(v) + 1]

\* C1: two views drawn in the same frame, each carrying settings with
\* distinct values, get distinct settings bindings, and each draw reads the
\* settings of its own view.
C1_EachViewReadsItsOwnSettings ==
    \A a, b \in Views :
        ( /\ a # b
          /\ Drew(a) /\ Drew(b)
          /\ HasSettings(a) /\ HasSettings(b)
          /\ extracted[a].settings # extracted[b].settings )
        => /\ SettingsElementOf(a) # SettingsElementOf(b)
           /\ SettingsSeenBy(a) = extracted[a].settings
           /\ SettingsSeenBy(b) = extracted[b].settings

\* C2: a run with a resource missing records nothing (no post-process
\* write, no bind group, no pass, no draw) and leaves the view target as it
\* was.
C2_SkipRecordsNothing ==
    [][\A v \in Views :
          (~EffectRan(v) /\ EffectRan(v)' /\ ~ResourcesReady)
          => /\ ops'[v] = NoOps
             /\ viewTarget'[v] = viewTarget[v]]_vars

C2_Witness ==
    \E v \in Views :
        /\ EffectRan(v) /\ ~PipelineReady
        /\ ops[v] = NoOps
        /\ viewTarget[v].writer[viewTarget[v].main] = "upstream"

\* C3: a run with all three resources ready records exactly one
\* post-process write, one bind group, one render pass and one draw of 3
\* vertices and 1 instance.
C3_ReadyRunDrawsOnce ==
    \A v \in Views :
        (EffectRan(v) /\ ResourcesReady)
        => /\ Len(ops[v].post_process_writes) = 1
           /\ Len(ops[v].bind_groups) = 1
           /\ Len(ops[v].render_passes) = 1
           /\ ops[v].draws = <<[vertices |-> 3, instances |-> 1]>>

C3_Witness ==
    \E v \in Views :
        EffectRan(v) /\ ResourcesReady /\ Len(ops[v].draws) = 1

\* C4: a run that draws samples the source view of its post-process write
\* and writes only the destination view of the same write; the two differ
\* and the source texture is never written by the effect.
C4_ReadsSourceWritesDestination ==
    \A v \in Views :
        Drew(v) =>
          LET pp == ops[v].post_process_writes[1]
          IN /\ ops[v].bind_groups[1].entries[1].resource = pp.source
             /\ ops[v].render_passes[1].color_attachments = <<pp.destination>>
             /\ pp.source # pp.destination
             /\ viewTarget[v].writer[pp.source] # "effect"

C4_Witness ==
    \E v \in Views :
        /\ Drew(v)
        /\ viewTarget[v].writer[ops[v].post_process_writes[1].destination]
             = "effect"
        /\ viewTarget[v].writer[ops[v].post_process_writes[1].source]
             = "upstream"

\* C5: the declared edges put the effect after tone mapping and before the
\* end of post processing in the 3d graph, after the end of the main pass
\* and before tone mapping in the 2d graph, and every execution order that
\* respects the edges runs the nodes in that order.
RanBefore(v, a, b) ==
    \A j \in DOMAIN order[v] :
        order[v][j] = b => \E i \in 1..(j - 1) : order[v][i] = a

C5_EffectOrderedByEdges ==
    /\ (hasRenderApp /\ phase # "build") =>
         /\ {<<Node3dTonemapping, VideoGlitchLabel>>,
             <<VideoGlitchLabel, Node3dEndMainPassPostProcessing>>}
               \subseteq renderGraph[Core3d].edges
         /\ {<<Node2dEndMainPass, VideoGlitchLabel>>,
             <<VideoGlitchLabel, Node2dTonemapping>>}
               \subseteq renderGraph[Core2d].edges
    /\ \A v \in Views :
         IF GraphOf(v) = Core3d
         THEN /\ RanBefore(v, Node3dTonemapping, VideoGlitchLabel)
              /\ RanBefore(v, VideoGlitchLabel, Node3dEndMainPassPostProcessing)
         ELSE /\ RanBefore(v, Node2dEndMainPass, VideoGlitchLabel)
              /\ RanBefore(v, VideoGlitchLabel, Node2dTonemapping)

C5_Witness ==
    /\ FrameDone
    /\ \E v, w \in Views : GraphOf(v) = Core3d /\ GraphOf(w) = Core2d

\* C6: whether a frame draws depends only on the three resources in that
\* frame: a view whose earlier frames were skipped draws in the first frame
\* that has them all, and skips exactly when one is missing.
C6_OutcomeDependsOnResourcesOnly ==
    \A v \in Views : EffectRan(v) => (Drew(v) <=> ResourcesReady)

C6_Witness ==
    \E v \in Views : skippedBefore[v] /\ EffectRan(v) /\ Drew(v)

\* C7: once the effect has run, the view's main texture is the effect's
\* destination when it drew and the upstream stage's output when it
\* skipped, and that is the texture the next stage reads.
C7_NextStageReadsWrittenTexture ==
    \A v \in Views :
        /\ EffectRan(v) =>
             viewTarget[v].writer[viewTarget[v].main]
               = (IF Drew(v) THEN "effect" ELSE "upstream")
        /\ downstreamRead[v] # "none" =>
             downstreamRead[v] = (IF Drew(v) THEN "effect" ELSE "upstream")

C7_Witness ==
    \E v \in Views : skippedBefore[v] /\ downstreamRead[v] = "effect"

\* C8: the pipeline, the bind-group layout and the sampler are created once,
\* when the resource is built; no number of frames or views adds another.
C8_PipelineQueuedOnce ==
    /\ Len(pipelineCache) <= 1 /\ device.layouts <= 1 /\ device.samplers <= 1
    /\ (hasRenderApp /\ phase \in {"update", "graph"}) =>
         /\ Len(pipelineCache) = 1 /\ device.layouts = 1 /\ device.samplers = 1
         /\ pipelineResource.pipeline_id = 1
    /\ \A v \in Views :
         Drew(v) => ops[v].set_pipelines = <<pipelineResource.pipeline_id>>

C8_Witness ==
    /\ Len(pipelineCache) = 1
    /\ \E v, w \in Views :
         v # w /\ skippedBefore[v] /\ Drew(v) /\ Drew(w)

\* C9: the bind group has 4 entries that match the declared layout position
\* by position (texture view, sampler, settings uniform, globals uniform),
\* every layout entry is visible to the fragment stage only, and the bind
\* group is set at slot 0.
Compatible(l, e) ==
    /\ l.binding = e.binding
    /\ l.visibility = {FRAGMENT}
    /\ CASE l.ty = "texture_2d" -> e.kind = "texture_view"
         [] l.ty = "sampler" -> e.kind = "sampler"
         [] l.ty = "uniform_buffer" ->
              e.kind = "buffer" /\ e.resource.size = l.detail
         [] OTHER -> FALSE

C9_BindGroupMatchesLayout ==
    \A v \in Views :
        Drew(v) =>
          LET bg == ops[v].bind_groups[1]
          IN /\ Len(bg.entries) = 4 /\ Len(bg.layout) = 4
             /\ bg.layout = pipelineResource.layout
             /\ [i \in 1..4 |-> <<bg.layout[i].ty, bg.layout[i].detail>>] =
                  << <<"texture_2d", "Float{filterable:true}">>,
                     <<"sampler", "Filtering">>,
                     <<"uniform_buffer", "VideoGlitchSettings">>,
                     <<"uniform_buffer", "GlobalsUniform">> >>
             /\ \A i \in 1..4 :
                  /\ bg.entries[i].binding = i - 1
                  /\ Compatible(bg.layout[i], bg.entries[i])
             /\ bg.entries[2].resource = pipelineResource.sampler
             /\ bg.entries[3].resource = SettingsBinding(uniforms)
             /\ bg.entries[4].resource = GlobalsBinding(globalsBound)
             /\ Len(ops[v].set_bind_groups) = 1
             /\ ops[v].set_bind_groups[1].index = 0
             /\ ops[v].set_bind_groups[1].bind_group = bg

C9_Witness ==
    \E v \in Views :
        Drew(v) /\ Len(ops[v].bind_groups[1].entries) = 4

\* C10: the draw/skip decision does not depend on the view: the views that
\* have run the effect in a frame all drew or all skipped, and a view
\* without settings is drawn on whenever the three resources are ready.
C10_DecisionIndependentOfView ==
    /\ \A v, w \in Views :
         (EffectRan(v) /\ EffectRan(w)) => (Drew(v) <=> Drew(w))
    /\ \A v \in Views :
         (EffectRan(v) /\ ~HasSettings(v) /\ ResourcesReady) => Drew(v)

C10_Witness ==
    \E v, w \in Views :
        /\ ~HasSettings(v) /\ Drew(v)
        /\ HasSettings(w) /\ Drew(w)

Next ==
    \/ Build
    \/ Finish
    \/ \E v \in Views, s \in {NoSettings} \cup SettingValues : SetSettings(v, s)
    \/ BeginRender
    \/ \E v \in Views : NodeRun(v)
    \/ \E v \in Views : RunUpstream(v)
    \/ \E v \in Views : RunDownstream(v)
    \/ EndFrame

Spec == Init /\ [][Next]_vars
====
